---- MODULE Spec2Model ----
(***************************************************************************)
(* Model of autogen/agentchat/contrib/capabilities/toolsfortoolless.py:    *)
(*   - ToolsforToolless.fix_message_ownership (the message normalizer),    *)
(*   - ToolsforToolless.parse_tool_calls      (the tool call extractor).   *)
(*                                                                         *)
(* Python dicts and lists are objects reached through references, so the   *)
(* normalizer is modelled over a heap: msgs (message dicts), lists (the    *)
(* 'tool_responses' list objects) and resps (the response dicts).  A list  *)
(* of messages is a sequence of references into msgs.                      *)
(***************************************************************************)
EXTENDS Integers, Sequences, FiniteSets, TLC

VARIABLES
    msgs,           \* heap: message id -> [role, content, tool_responses]
    lists,          \* heap: list id -> sequence of entries (references)
    resps,          \* heap: response id -> role of that response dict
    messages,       \* the caller's list handed to fix_message_ownership
    heap0,          \* the heap as it was before the first call (history)
    returned,       \* one record per finished fix_message_ownership call
    response_text,  \* the text handed to parse_tool_calls
    tool_list,      \* the allowed tool names handed to parse_tool_calls
    clock,          \* the wall clock, in whole seconds
    parsed          \* one record per finished parse_tool_calls call

vars == <<msgs, lists, resps, messages, heap0, returned,
          response_text, tool_list, clock, parsed>>

normvars == <<msgs, lists, resps, messages, heap0, returned>>
extractvars == <<response_text, tool_list, clock, parsed>>

(***************************************************************************)
(* Bounds                                                                  *)
(***************************************************************************)
\* longest conversation handed to the normalizer
MaxMessages == 3
\* most entries in one message's tool_responses list
MaxResponses == 1

\* The absent dict key: message.get('tool_responses') is None.
None == 0

Roles == {"system", "user", "assistant", "tool"}

Min(S) == CHOOSE x \in S : \A y \in S : x <= y

(***************************************************************************)
(* The normalizer: fix_message_ownership                                   *)
(***************************************************************************)

\* An entry of a tool_responses list: a reference to a response dict, or
\* (after list.append(list)) a reference to another list object.
Entry(isList, ref) == [isList |-> isList, ref |-> ref]

\* The loop state: the heap, the output list and the flag.
\* raised is TRUE once an exception has left the loop.
LoopState(h, clean, prev, raised) ==
    [msgs |-> h.msgs, lists |-> h.lists, resps |-> h.resps,
     cleanmessages |-> clean, previous_was_user |-> prev, raised |-> raised]

\* message.get('tool_responses') as a truth value: the key is present and
\* the list is not empty.
HasToolResponses(S, mid) ==
    /\ S.msgs[mid].tool_responses # None
    /\ S.lists[S.msgs[mid].tool_responses] # <<>>

\* for response in message['tool_responses']: response['role'] = 'user'
\* An entry that is itself a list has no string keys: list['role'] = ...
\* raises TypeError, after the entries before it were rewritten.
RewriteResponseRoles(S, mid) ==
    LET l == S.lists[S.msgs[mid].tool_responses]
        bad == {k \in 1..Len(l) : l[k].isList}
        stop == IF bad = {} THEN Len(l) + 1 ELSE Min(bad)
        done == {l[k].ref : k \in 1..(stop - 1)}
    IN [S EXCEPT !.resps = [r \in DOMAIN S.resps |->
                               IF r \in done THEN "user" ELSE S.resps[r]],
                 !.raised = (bad # {})]

\* MergeIntoLast with the operands of += swapped: the merged message's
\* content lands in front of the content gathered so far.
MergeIntoLastPrepending(S, mid) ==
    LET last == S.cleanmessages[Len(S.cleanmessages)]
    IN [S EXCEPT !.msgs[last].content = S.msgs[mid].content \o @]

\* previous_was_user is set: merge the message into cleanmessages[-1].
MergeIntoLast(S, mid) ==
    LET last == S.cleanmessages[Len(S.cleanmessages)]
        S1 == [S EXCEPT !.msgs[last].content = @ \o S.msgs[mid].content]
    IN IF ~HasToolResponses(S1, mid) THEN S1
       ELSE LET S2 == RewriteResponseRoles(S1, mid)
                tr == S2.msgs[mid].tool_responses
            IN IF S2.raised THEN S2
               ELSE IF HasToolResponses(S2, last)
                    THEN [S2 EXCEPT !.lists[S2.msgs[last].tool_responses] =
                                        Append(@, Entry(TRUE, tr))]
                    ELSE [S2 EXCEPT !.msgs[last].tool_responses = tr]

\* StartUserMessage without the role rewrite (message['role'] = 'user' lost).
StartUserMessageKeepingRole(S, mid) ==
    [S EXCEPT !.previous_was_user = TRUE,
              !.cleanmessages = Append(@, mid)]

\* previous_was_user is clear: the message itself becomes the output message.
StartUserMessage(S, mid) ==
    LET S1 == [S EXCEPT !.previous_was_user = TRUE,
                        !.msgs[mid].role = "user"]
        S2 == IF HasToolResponses(S1, mid)
              THEN RewriteResponseRoles(S1, mid) ELSE S1
    IN IF S2.raised THEN S2
       ELSE [S2 EXCEPT !.cleanmessages = Append(@, mid)]

\* a system or assistant message: clear the flag, pass the message on.
AppendOther(S, mid) ==
    [S EXCEPT !.previous_was_user = FALSE,
              !.cleanmessages = Append(@, mid)]

\* The body of the for loop, for one message.
ProcessMessage(S, mid) ==
    IF S.msgs[mid].role \in {"tool", "user"}
    THEN IF S.previous_was_user
         THEN MergeIntoLast(S, mid)
         ELSE StartUserMessage(S, mid)
    ELSE AppendOther(S, mid)

RECURSIVE MessageLoop(_, _, _)
MessageLoop(S, ms, i) ==
    IF i > Len(ms) \/ S.raised THEN S
    ELSE MessageLoop(ProcessMessage(S, ms[i]), ms, i + 1)

\* fix_message_ownership(messages) run on heap h.
fix_message_ownership(h, ms) ==
    MessageLoop(LoopState(h, <<>>, FALSE, FALSE), ms, 1)

(***************************************************************************)
(* Values: what a caller sees when it reads a message through a reference. *)
(***************************************************************************)
RECURSIVE ListValue(_, _)
RECURSIVE EntriesValue(_, _, _)
EntriesValue(h, l, k) ==
    IF k > Len(l) THEN <<>>
    ELSE (IF l[k].isList THEN ListValue(h, l[k].ref)
          ELSE <<h.resps[l[k].ref]>>) \o EntriesValue(h, l, k + 1)
ListValue(h, lid) == <<"[">> \o EntriesValue(h, h.lists[lid], 1) \o <<"]">>

MessageValue(h, mid) ==
    [role |-> h.msgs[mid].role,
     content |-> h.msgs[mid].content,
     tool_responses |-> IF h.msgs[mid].tool_responses = None THEN <<"None">>
                        ELSE ListValue(h, h.msgs[mid].tool_responses)]

ConversationValue(h, ms) == [i \in 1..Len(ms) |-> MessageValue(h, ms[i])]

Heap == [msgs |-> msgs, lists |-> lists, resps |-> resps]

(***************************************************************************)
(* Actions of the normalizer                                               *)
(***************************************************************************)
CallRecord(R) ==
    [outcome |-> IF R.raised THEN "raised" ELSE "returned",
     cleanmessages |-> IF R.raised THEN <<>> ELSE R.cleanmessages,
     value |-> IF R.raised THEN <<>>
               ELSE ConversationValue(R, R.cleanmessages)]

RunNormalizer(ms) ==
    LET R == fix_message_ownership(Heap, ms)
    IN /\ msgs' = R.msgs
       /\ lists' = R.lists
       /\ resps' = R.resps
       /\ returned' = Append(returned, CallRecord(R))
       /\ UNCHANGED <<messages, heap0>>

\* normalize(m)
Normalize ==
    /\ returned = <<>>
    /\ RunNormalizer(messages)
    /\ UNCHANGED extractvars

\* normalize(normalize(m)): the list the first call returned goes in again.
NormalizeAgain ==
    /\ Len(returned) = 1
    /\ returned[1].outcome = "returned"
    /\ RunNormalizer(returned[1].cleanmessages)
    /\ UNCHANGED extractvars

\* A conversation of n fresh messages; message i owns list i (when it has
\* the key) and that list's entries are fresh response dicts with role 'tool'.
InitNormalize ==
    /\ \E n \in 0..MaxMessages :
         \E roles \in [1..n -> Roles] :
           \E has \in [1..n -> BOOLEAN] :
             \E cnt \in [1..n -> 0..MaxResponses] :
               /\ \A i \in 1..n : ~has[i] => cnt[i] = 0
               /\ messages = [i \in 1..n |-> i]
               /\ msgs = [i \in 1..n |->
                            [role |-> roles[i], content |-> <<i>>,
                             tool_responses |-> IF has[i] THEN i ELSE None]]
               /\ lists = [i \in 1..n |->
                             [j \in 1..cnt[i] |->
                                Entry(FALSE, (i - 1) * MaxResponses + j)]]
               /\ resps = [r \in 1..(n * MaxResponses) |-> "tool"]
    /\ heap0 = Heap
    /\ returned = <<>>
    /\ response_text = <<>>
    /\ tool_list = <<>>
    /\ clock = 0
    /\ parsed = <<>>

NextNormalize == Normalize \/ NormalizeAgain

SpecNormalize == InitNormalize /\ [][NextNormalize]_vars

(***************************************************************************)
(* The extractor: parse_tool_calls                                         *)
(*                                                                         *)
(* The text is a sequence of chunks, each the stretch of text that the     *)
(* fix_busted_json scanner hands back as one section.  What the library    *)
(* and json.loads answer for a chunk is part of the chunk: whether it      *)
(* holds a '{', whether can_parse_json accepts its section, and what       *)
(* json.loads makes of the section.                                        *)
(***************************************************************************)
\* most chunks in one response text
MaxChunks == 2
\* most seconds the clock moves between two datetime.now() reads
MaxTick == 1

\* JSON values as far as the code looks at them: the type and, for a
\* number its value, for a string, array or object its length.
JsonValue(t, n) == [t |-> t, n |-> n]
\* dict.get(key) of a key that is not there
Missing == JsonValue("missing", 0)
\* What json.loads returns: t is "JSONDecodeError" when it raises, else the
\* type of the value; name and arguments are the dict's entries.
Loaded(t, name, arguments) == [t |-> t, name |-> name, arguments |-> arguments]
NoName == "<none>"

Chunk(brace, can, val) == [brace |-> brace, can |-> can, val |-> val]

CallNames == {"lookup", "unlisted", NoName}
ArgumentValues ==
    {Missing, JsonValue("obj", 0), JsonValue("obj", 1), JsonValue("str", 3),
     JsonValue("num", 7), JsonValue("arr", 1)}

Chunks ==
    \* " done."      plain words
    {Chunk(FALSE, FALSE, Loaded("JSONDecodeError", NoName, Missing)),
    \* " 42 "        plain text that is a JSON number
     Chunk(FALSE, TRUE, Loaded("num", NoName, Missing)),
    \* " [1, 2] "    plain text that is a JSON array
     Chunk(FALSE, TRUE, Loaded("arr", NoName, Missing)),
    \* "{oops"       a brace the scanner cannot repair
     Chunk(TRUE, FALSE, Loaded("JSONDecodeError", NoName, Missing)),
    \* a candidate the library accepts and json.loads rejects
     Chunk(TRUE, TRUE, Loaded("JSONDecodeError", NoName, Missing))}
    \cup
    \* {"name": ..., "arguments": ...} with either key possibly missing
    {Chunk(TRUE, TRUE, Loaded("obj", nm, a)) :
        nm \in CallNames, a \in ArgumentValues}

Catalogs == {<<>>, <<"lookup">>, <<"lookup", "search">>}

\* A section as the scanner returns it: a string of its own (the repaired
\* JSON text for a candidate), no longer a stretch of the response text.
Section(chunk) == [can |-> chunk.can, val |-> chunk.val]

\* jsonparse.to_array_of_plain_strings_or_json(response_text)
to_array_of_plain_strings_or_json(text) ==
    [i \in 1..Len(text) |-> Section(text[i])]

\* jsonparse.can_parse_json(section)
can_parse_json(section) == section.can

\* json.loads(section)
json_loads(section) == section.val

\* json.dumps(value): the JSON text of the value
json_dumps(v) == <<"json", v.t, v.n>>

\* Python truth of a value: None, 0, "", [] and {} are false.
Truthy(v) == v.t # "missing" /\ v.n > 0

\* HasTextAndBrace without the brace test.
HasTextOnly(text) == text # <<>>

\* if response_text and "{" in response_text
HasTextAndBrace(text) ==
    /\ text # <<>>
    /\ \E i \in 1..Len(text) : text[i].brace

\* x in tool_list
InList(x, l) == \E k \in 1..Len(l) : l[k] = x

\* The filter without the allow-list test.
AcceptsAnyNamed(data, tools) ==
    data.name # NoName /\ Truthy(data.arguments)

\* tool_call_data.get('name') in tool_list and tool_call_data.get('arguments')
Accepts(data, tools) ==
    InList(data.name, tools) /\ Truthy(data.arguments)

\* f"toolcall-{int(datetime.now().timestamp())}"
ToolCallId(now) == <<"toolcall-", now>>

\* the dict appended to tool_calls
ToolCall(data, now) ==
    [id |-> ToolCallId(now), type |-> "function",
     function |-> [name |-> data.name,
                   arguments |-> json_dumps(data.arguments)]]

\* The body of the for loop for one section.  X is the loop state:
\* tool_calls, the clock, and the exception that left the loop ("" if none).
\* ticks[i] is how far the clock has moved when section i reads it.
ProcessSection(X, section, tick) ==
    IF ~can_parse_json(section) THEN X
    ELSE LET data == json_loads(section)
         IN IF data.t = "JSONDecodeError" THEN X
            ELSE IF data.t # "obj"
                 THEN [X EXCEPT !.exception = "AttributeError"]
                 ELSE IF Accepts(data, X.tool_list)
                      THEN [X EXCEPT
                               !.now = @ + tick,
                               !.tool_calls =
                                   Append(@, ToolCall(data, X.now + tick))]
                      ELSE X

RECURSIVE SectionLoop(_, _, _, _)
SectionLoop(X, sections, ticks, i) ==
    IF i > Len(sections) \/ X.exception # "" THEN X
    ELSE SectionLoop(ProcessSection(X, sections[i], ticks[i]),
                     sections, ticks, i + 1)

\* parse_tool_calls(response_text, tool_list), started when the clock
\* reads now.
parse_tool_calls(text, tools, now, ticks) ==
    LET X0 == [tool_calls |-> <<>>, tool_list |-> tools, now |-> now,
               exception |-> ""]
        X == IF HasTextAndBrace(text)
             THEN SectionLoop(X0, to_array_of_plain_strings_or_json(text),
                              ticks, 1)
             ELSE X0
    IN [outcome |-> IF X.exception = "" THEN "returned" ELSE "raised",
        exception |-> X.exception,
        tool_calls |-> IF X.exception = "" THEN X.tool_calls ELSE <<>>,
        text |-> IF X.exception = "" THEN text ELSE <<>>,
        now |-> X.now]

\* One call of parse_tool_calls; the clock moves as the call runs.
ParseToolCalls ==
    /\ parsed = <<>>
    /\ \E ticks \in [1..Len(response_text) -> 0..MaxTick] :
         LET R == parse_tool_calls(response_text, tool_list, clock, ticks)
         IN /\ parsed' = Append(parsed, [outcome |-> R.outcome,
                                         exception |-> R.exception,
                                         tool_calls |-> R.tool_calls,
                                         text |-> R.text])
            /\ clock' = R.now
    /\ UNCHANGED <<response_text, tool_list>>
    /\ UNCHANGED normvars

InitExtract ==
    /\ \E n \in 0..MaxChunks : response_text \in [1..n -> Chunks]
    /\ tool_list \in Catalogs
    /\ clock = 0
    /\ parsed = <<>>
    /\ messages = <<>>
    /\ msgs = <<>>
    /\ lists = <<>>
    /\ resps = <<>>
    /\ heap0 = Heap
    /\ returned = <<>>

NextExtract == ParseToolCalls

SpecExtract == InitExtract /\ [][NextExtract]_vars

(***************************************************************************)
(* Properties of the extractor                                             *)
(***************************************************************************)
Extracted == parsed # <<>>
ExtractReturned == Extracted /\ parsed[1].outcome = "returned"
\* chunks that are call objects naming a tool of the catalog
ListedCalls ==
    {i \in 1..Len(response_text) :
        /\ response_text[i].can
        /\ response_text[i].val.t = "obj"
        /\ InList(response_text[i].val.name, tool_list)}
\* chunks that are call objects naming a tool outside the catalog
UnlistedCalls ==
    {i \in 1..Len(response_text) :
        /\ response_text[i].can
        /\ response_text[i].val.t = "obj"
        /\ response_text[i].val.name # NoName
        /\ ~InList(response_text[i].val.name, tool_list)}

\* C3: the ids of the calls returned by one parse_tool_calls call are
\* pairwise distinct, also when the clock does not move between them.
C3_IdsDistinct ==
    Extracted =>
        \A i, j \in 1..Len(parsed[1].tool_calls) :
            i # j => parsed[1].tool_calls[i].id # parsed[1].tool_calls[j].id

\* C4: every returned call names a tool of the catalog handed in, and a
\* call object naming a tool outside the catalog produces no call: there
\* are no more calls than call objects naming a cataloged tool.
C4_NamesResolve ==
    Extracted =>
        /\ \A k \in 1..Len(parsed[1].tool_calls) :
              InList(parsed[1].tool_calls[k].function.name, tool_list)
        /\ Len(parsed[1].tool_calls) <= Cardinality(ListedCalls)

C4_Witness ==
    /\ ExtractReturned
    /\ Len(parsed[1].tool_calls) = 1
    /\ \E i \in UnlistedCalls : Truthy(response_text[i].val.arguments)

\* C5: the text handed back is the text handed in, however many calls were
\* extracted; an empty text or a text without '{' gives an empty call list.
C5_TextVerbatim ==
    Extracted =>
        /\ parsed[1].outcome = "returned" => parsed[1].text = response_text
        /\ (response_text = <<>> \/ \A i \in 1..Len(response_text) :
                                        ~response_text[i].brace)
              => /\ parsed[1].outcome = "returned"
                 /\ parsed[1].tool_calls = <<>>

C5_Witness ==
    /\ ExtractReturned
    /\ Len(parsed[1].tool_calls) >= 2
    /\ parsed[1].text = response_text

\* C9: every returned call carries arguments that are a non-empty object;
\* call objects whose arguments are missing, empty or of another type are
\* dropped, also when their name is in the catalog.
C9_ArgumentsAreObjects ==
    Extracted =>
        /\ \A k \in 1..Len(parsed[1].tool_calls) :
              /\ parsed[1].tool_calls[k].function.arguments[2] = "obj"
              /\ parsed[1].tool_calls[k].function.arguments[3] > 0
        /\ Len(parsed[1].tool_calls) <=
              Cardinality({i \in ListedCalls :
                  /\ response_text[i].val.arguments.t = "obj"
                  /\ response_text[i].val.arguments.n > 0})

\* C10: no exception leaves parse_tool_calls: a section that does not
\* parse, or parses to an array or a scalar, is skipped and the call
\* returns.
C10_NeverRaises ==
    Extracted => parsed[1].outcome = "returned"

(***************************************************************************)
(* Properties of the normalizer                                            *)
(***************************************************************************)
Max(S) == CHOOSE x \in S : \A y \in S : x >= y

\* The input as it was handed in.
UserLike0(i) == heap0.msgs[i].role \in {"user", "tool"}
Carries0(i) ==
    /\ heap0.msgs[i].tool_responses # None
    /\ heap0.lists[heap0.msgs[i].tool_responses] # <<>>
\* input positions that continue a run of adjacent user/tool messages
MergedPositions ==
    {i \in 2..Len(messages) : UserLike0(i) /\ UserLike0(i - 1)}
\* the index of the maximal run (or single system/assistant message) holding i
Group(i) == Cardinality((1..i) \ MergedPositions)
Members(j) == {i \in 1..Len(messages) : Group(i) = j}
RECURSIVE ContentFrom(_, _)
ContentFrom(lo, hi) ==
    IF lo > hi THEN <<>>
    ELSE heap0.msgs[lo].content \o ContentFrom(lo + 1, hi)

FirstCallReturned == returned # <<>> /\ returned[1].outcome = "returned"

\* C1: whatever the roles of the input, the returned sequence holds no
\* message with role 'tool' and no two adjacent messages with role 'user'.
C1_NoToolNoAdjacentUser ==
    \A c \in 1..Len(returned) :
        returned[c].outcome = "returned" =>
            LET out == returned[c].value
            IN /\ \A i \in 1..Len(out) : out[i].role # "tool"
               /\ \A i \in 1..(Len(out) - 1) :
                    ~(out[i].role = "user" /\ out[i + 1].role = "user")

C1_Witness ==
    /\ FirstCallReturned
    /\ \E i \in 1..Len(messages) : heap0.msgs[i].role = "tool"
    /\ MergedPositions # {}
    /\ Len(returned[1].value) >= 2

\* C2: after normalize(messages) returns, every message of the input reads
\* as it did before the call (role, content, tool_responses and the role of
\* every entry).
C2_InputNeverMutated ==
    returned # <<>> =>
        ConversationValue(Heap, messages) = ConversationValue(heap0, messages)

\* C6: normalize(normalize(m)) completes and equals normalize(m).
C6_Idempotent ==
    Len(returned) = 2 =>
        /\ returned[2].outcome = "returned"
        /\ returned[2].value = returned[1].value

\* C7: every maximal run of adjacent user/tool input messages yields exactly
\* one output message with role 'user' whose content is the run's contents
\* concatenated in input order; every system/assistant input message yields
\* one output message equal to it; the output is in input order and its
\* length is the input length minus the number of merges.
C7_NothingDroppedOrderKept ==
    returned # <<>> =>
        LET out == returned[1].value
        IN /\ returned[1].outcome = "returned"
           /\ Len(out) = Len(messages) - Cardinality(MergedPositions)
           /\ \A j \in 1..Len(out) :
                LET lo == Min(Members(j))
                    hi == Max(Members(j))
                IN IF UserLike0(lo)
                   THEN /\ out[j].role = "user"
                        /\ out[j].content = ContentFrom(lo, hi)
                   ELSE out[j] = MessageValue(heap0, lo)

C7_Witness ==
    /\ FirstCallReturned
    /\ MergedPositions # {}
    /\ \E i \in 1..Len(messages) : ~UserLike0(i)
    /\ Len(returned[1].value) = Len(messages) - 1

\* C8: an output message that took in a merged user/tool message carrying
\* tool_responses has a flat tool_responses list: a sequence of response
\* records, each with role 'user', never a sequence holding a sequence.
FlatUserList(tr) ==
    /\ Len(tr) >= 2
    /\ tr[1] = "["
    /\ tr[Len(tr)] = "]"
    /\ \A k \in 2..(Len(tr) - 1) : tr[k] = "user"
C8_ToolResponsesStayFlat ==
    FirstCallReturned =>
        \A j \in 1..Len(returned[1].value) :
            (\E i \in Members(j) \cap MergedPositions : Carries0(i)) =>
                FlatUserList(returned[1].value[j].tool_responses)

====
